---- MODULE Spec2Model ----
(***************************************************************************)
(* LocalFlowService (pkg/nuclide/flow-base/lib/LocalFlowService.js): the   *)
(* supervisor of `flow server` processes and its four request handlers.    *)
(*                                                                         *)
(* JavaScript runs one task at a time, so every action below is the code   *)
(* a task runs between two suspension points (await).  The suspension      *)
(* points of a request are the awaits of getFlowExecOptions, getPathToFlow *)
(* and asyncExecute.  The hop from _execFlow's completion to the handler's *)
(* continuation touches no shared state and is folded into the step that   *)
(* completes _execFlow.                                                    *)
(***************************************************************************)
EXTENDS Integers, Sequences, FiniteSets, TLC

VARIABLES
  startedServers,  \* this._startedServers: set of worker handles
  failedRoots,     \* this._failedRoots: set of roots
  servers,         \* every ChildProcess safeSpawn has returned, by handle
  req,             \* the in-flight call of every request slot
  disposeCalls,    \* number of dispose() calls made so far
  lastExit,        \* the (code, signal) of the last 'exit' event
  startedAfterDispose, \* a handler has been called after a dispose()
  quick            \* the QuickSelectionComponent: its results and its promises

vars == <<startedServers, failedRoots, servers, req, disposeCalls, lastExit,
          startedAfterDispose, quick>>

----------------------------------------------------------------------------
(* Bounds *)

MaxWorkers == 2      \* worker handles the model tracks individually
MaxDispose == 2      \* dispose() calls
MaxExecs == 7        \* width of the per-call invocation counter
MaxCoord == 2        \* lines and columns of the requests
MaxQueries == 2      \* setQuery() calls

Reqs == {1, 2}       \* concurrent request slots
Roots == {"r1", "r2"}
NoRoot == "none"
Files == {"r1/a.js", "r2/b.js", "x/c.js"}

----------------------------------------------------------------------------
(* Program constants *)

maxTries == 5

Handlers == {"findDefinition", "findDiagnostics",
             "getAutocompleteSuggestions", "getType"}

----------------------------------------------------------------------------
(* Output texts.  A text is a sequence of characters; the sample texts below
   are the stdout values the one-shot invocation produces in the model. *)

\* not JSON
DocMalformed ==
  <<"{", "o", "o", "p", "s">>

\* the JSON value null
DocNull ==
  <<"n", "u", "l", "l">>

\* a JSON number
DocNumber ==
  <<"5">>

\* an object without the expected fields
DocEmptyObject ==
  <<"{", "}">>

\* a get-def reply
DocDefinition ==
  <<"{", "\"", "p", "a", "t", "h", "\"", ":", "\"", "p", "\"", ",", "\"", "l", "i", "n", "e", "\"", ":", "3", ",", "\"", "s", "t", "a", "r", "t", "\"", ":", "4", "}">>

\* a status / check-contents reply
DocErrors ==
  <<"{", "\"", "e", "r", "r", "o", "r", "s", "\"", ":", "[", "\"", "e", "\"", "]", "}">>

\* an autocomplete reply
DocSuggestions ==
  <<"[", "{", "\"", "n", "a", "m", "e", "\"", ":", "\"", "f", "\"", ",", "\"", "t", "y", "p", "e", "\"", ":", "\"", "T", "\"", "}", "]">>

\* an array whose item is null
DocNullItem ==
  <<"[", "n", "u", "l", "l", "]">>

\* an autocomplete reply without suggestions
DocNoSuggestions ==
  <<"[", "]">>

\* an autocomplete reply with two suggestions
DocTwoSuggestions ==
  <<"[", "{", "\"", "n", "a", "m", "e", "\"", ":", "\"", "f", "\"", ",", "\"", "t", "y", "p", "e", "\"", ":", "\"", "T", "\"", "}", ",", "{", "\"", "n", "a", "m", "e", "\"", ":", "\"", "g", "\"", ",", "\"", "t", "y", "p", "e", "\"", ":", "\"", "U", "\"", "}", "]">>

\* a decimal digit, and the decimal numeral of a natural number
Digit(n) ==
  CASE n = 0 -> "0" [] n = 1 -> "1" [] n = 2 -> "2" [] n = 3 -> "3" [] n = 4 -> "4"
    [] n = 5 -> "5" [] n = 6 -> "6" [] n = 7 -> "7" [] n = 8 -> "8" [] n = 9 -> "9"

RECURSIVE Digits(_)
Digits(n) == IF n < 10 THEN <<Digit(n)>> ELSE Digits(n \div 10) \o <<Digit(n % 10)>>

\* the get-def reply for a definition at 1-based (line, start)
DefinitionDoc(line, start) ==
  <<"{", "\"", "p", "a", "t", "h", "\"", ":", "\"", "p", "\"", ",", "\"", "l", "i", "n", "e", "\"", ":">>
  \o Digits(line) \o
  <<",", "\"", "s", "t", "a", "r", "t", "\"", ":">>
  \o Digits(start) \o <<"}">>

\* type-at-pos: a line that begins with Failure after the second line
TextLateFailure ==
  <<"F", "o", "o", "\n", "b", "a", "r", "\n", "F", "a", "i", "l", "u", "r", "e", ":", " ", "x", "\n">>

\* a type-at-pos reply
TextFoo ==
  <<"F", "o", "o", "\n">>

\* type-at-pos: unknown type
TextUnknown ==
  <<"(", "u", "n", "k", "n", "o", "w", "n", ")", "\n">>

\* type-at-pos: failure on the second line
TextFailure ==
  <<"s", "t", "r", "i", "n", "g", "\n", "F", "a", "i", "l", "u", "r", "e", ":", " ", "x", "\n">>

\* the empty output
TextEmpty == <<>>

Stdouts ==
  {DocMalformed,
   DocNull,
   DocNumber,
   DocEmptyObject,
   DocDefinition,
   DocErrors,
   DocSuggestions,
   DocNullItem,
   TextFoo,
   TextUnknown,
   TextFailure,
   TextEmpty}

\* stderr of a one-shot invocation that found no server for the root
StderrNoServer ==
  <<"T", "h", "e", "r", "e", " ", "i", "s", " ", "n", "o", " ", "f", "l", "o", "w", " ", "s", "e", "r", "v", "e", "r", " ", "r", "u", "n", "n", "i", "n", "g", "\n">>

\* stderr of any other failure
StderrOther ==
  <<"C", "o", "u", "l", "d", " ", "n", "o", "t", " ", "f", "i", "n", "d", " ", "f", "i", "l", "e", "\n">>

\* the phrase _execFlow looks for in e.stderr
NoServerPhrase ==
  <<"T", "h", "e", "r", "e", " ", "i", "s", " ", "n", "o", " ", "f", "l", "o", "w", " ", "s", "e", "r", "v", "e", "r", " ", "r", "u", "n", "n", "i", "n", "g">>

\* /\nFailure/
FailurePattern ==
  <<"\n", "F", "a", "i", "l", "u", "r", "e">>

\* '(unknown)'
UnknownMarker ==
  <<"(", "u", "n", "k", "n", "o", "w", "n", ")">>

----------------------------------------------------------------------------
(* JavaScript values *)

Undefined == [t |-> "undefined"]
Null == [t |-> "null"]
NaN == [t |-> "NaN"]
Num(n) == [t |-> "number", n |-> n]
Text(chars) == [t |-> "string", chars |-> chars]
Obj(fields) == [t |-> "object", fields |-> fields]
Arr(items) == [t |-> "array", items |-> items]
Path(name) == [t |-> "path", name |-> name]

\* an Error object that carries none of exitCode, stdout, stderr
TypeError == Obj([message |-> Text(<<"T">>)])
SyntaxError == Obj([message |-> Text(<<"S">>)])

\* the completion of an async function or of a block of code
Return(v) == [k |-> "return", v |-> v]
Throw(e) == [k |-> "throw", v |-> e]

\* !v
Falsy(v) ==
  \/ v.t \in {"undefined", "null", "NaN"}
  \/ v.t = "number" /\ v.n = 0
  \/ v.t = "string" /\ v.chars = <<>>

\* v[key]: a TypeError on null and undefined, undefined for a missing key
CanGet(v) == v.t \notin {"undefined", "null"}

Get(v, key) ==
  IF v.t = "object" /\ key \in DOMAIN v.fields THEN v.fields[key] ELSE Undefined

\* a coordinate passed on as it is
Minus0(v) == v

\* v - 1
Minus1(v) == IF v.t = "number" THEN Num(v.n - 1) ELSE NaN

\* text.match(pattern), for a pattern without special characters
Matches(text, pattern) ==
  \E i \in 1..(Len(text) - Len(pattern) + 1) :
    SubSeq(text, i, i + Len(pattern) - 1) = pattern

\* text.split('\n')[0]
FirstLine(text) ==
  IF \E i \in 1..Len(text) : text[i] = "\n"
  THEN LET n == CHOOSE i \in 1..Len(text) :
                  text[i] = "\n" /\ \A j \in 1..(i - 1) : text[j] # "\n"
       IN SubSeq(text, 1, n - 1)
  ELSE text

\* the 1-based lines and columns of the model's get-def replies
WorkerCoords == 1..(MaxCoord + 2)

\* JSON.parse on the model's texts: the value, or a SyntaxError
JSONParse(v) ==
  IF v.t # "string" THEN Throw(SyntaxError)
  ELSE CASE v.chars = DocNull -> Return(Null)
         [] v.chars = DocNumber -> Return(Num(5))
         [] v.chars = DocEmptyObject -> Return(Obj(<<>>))
         [] v.chars = DocDefinition ->
              Return(Obj([path |-> Text(<<"p">>), line |-> Num(3), start |-> Num(4)]))
         [] v.chars = DocErrors -> Return(Obj([errors |-> Arr(<<Text(<<"e">>)>>)]))
         [] v.chars = DocSuggestions ->
              Return(Arr(<<Obj([name |-> Text(<<"f">>), type |-> Text(<<"T">>)])>>))
         [] v.chars = DocNullItem -> Return(Arr(<<Null>>))
         [] v.chars = DocNoSuggestions -> Return(Arr(<<>>))
         [] v.chars = DocTwoSuggestions ->
              Return(Arr(<<Obj([name |-> Text(<<"f">>), type |-> Text(<<"T">>)]),
                           Obj([name |-> Text(<<"g">>), type |-> Text(<<"U">>)])>>))
         [] \E l, c \in WorkerCoords : v.chars = DefinitionDoc(l, c) ->
              LET at == CHOOSE lc \in WorkerCoords \X WorkerCoords :
                          v.chars = DefinitionDoc(lc[1], lc[2])
              IN Return(Obj([path |-> Text(<<"p">>), line |-> Num(at[1]),
                             start |-> Num(at[2])]))
         [] OTHER -> Throw(SyntaxError)

----------------------------------------------------------------------------
(* The four handlers, from the completion of `await this._execFlow(...)` to
   the completion of the handler.  flow is Return(null), Return(result) or
   Throw(e). *)

\* a handler that does not look at the exit code
ExitedAny(result) == TRUE

\* result.exitCode === 0
ExitedZero(result) == Get(result, "exitCode") = Num(0)

\* findDefinition: the body of the try block once _execFlow has returned
FindDefinitionTry(result) ==
  IF Falsy(result) THEN Return(Null)
  ELSE IF ExitedZero(result)
  THEN LET parsed == JSONParse(Get(result, "stdout"))
       IN IF parsed.k = "throw" THEN parsed
          ELSE IF ~CanGet(parsed.v) THEN Throw(TypeError)
          ELSE IF ~Falsy(Get(parsed.v, "path"))
          THEN Return(Obj([file |-> Get(parsed.v, "path"),
                           line |-> Minus1(Get(parsed.v, "line")),
                           column |-> Minus1(Get(parsed.v, "start"))]))
          ELSE Return(Null)
  ELSE Return(Null)

findDefinition(flow) ==
  LET try == IF flow.k = "throw" THEN flow ELSE FindDefinitionTry(flow.v)
  IN IF try.k = "throw" THEN Return(Null) ELSE try

\* findDiagnostics: the code after `result` has been settled
FindDiagnosticsParse(result) ==
  LET parsed == JSONParse(Get(result, "stdout"))
  IN IF parsed.k = "throw" THEN Return(Arr(<<>>))
     ELSE IF ~CanGet(parsed.v) THEN Throw(TypeError)
     ELSE Return(Get(parsed.v, "errors"))

\* a test for the exit code of a success
HasExitCodeZero(e) == Get(e, "exitCode") = Num(0)

\* e.exitCode !== undefined
HasExitCode(e) == Get(e, "exitCode") # Undefined

findDiagnostics(flow) ==
  IF flow.k = "throw"
  THEN IF HasExitCode(flow.v)
       THEN FindDiagnosticsParse(flow.v)
       ELSE Return(Arr(<<>>))
  ELSE IF Falsy(flow.v) THEN Return(Arr(<<>>))
  ELSE FindDiagnosticsParse(flow.v)

\* the prefix as it is
ReplacementPrefixRaw(prefix) == prefix

\* /^\s*$/.test(prefix) ? '' : prefix
ReplacementPrefix(prefix) ==
  IF \A i \in 1..Len(prefix) : prefix[i] \in {" ", "\t", "\n"} THEN <<>> ELSE prefix

\* json.map(item => ({text, rightLabel, replacementPrefix}))
MapSuggestions(json, prefix) ==
  IF json.t # "array" THEN Throw(TypeError)
  ELSE IF \E i \in 1..Len(json.items) : ~CanGet(json.items[i]) THEN Throw(TypeError)
  ELSE Return(Arr([i \in 1..Len(json.items) |->
                     Obj([text |-> Get(json.items[i], "name"),
                          rightLabel |-> Get(json.items[i], "type"),
                          replacementPrefix |-> Text(ReplacementPrefix(prefix))])]))

GetAutocompleteSuggestionsTry(result, prefix) ==
  IF Falsy(result) THEN Return(Arr(<<>>))
  ELSE IF Get(result, "exitCode") = Num(0)
  THEN LET parsed == JSONParse(Get(result, "stdout"))
       IN IF parsed.k = "throw" THEN parsed ELSE MapSuggestions(parsed.v, prefix)
  ELSE Return(Arr(<<>>))

getAutocompleteSuggestions(flow, prefix) ==
  LET try == IF flow.k = "throw" THEN flow
             ELSE GetAutocompleteSuggestionsTry(flow.v, prefix)
  IN IF try.k = "throw" THEN Return(Arr(<<>>)) ELSE try

\* getType: the code after `output` has been set
GetTypeDecode(output) ==
  IF output.t # "string" THEN Throw(TypeError)
  ELSE IF Matches(output.chars, FailurePattern) THEN Return(Null)
  ELSE LET type == FirstLine(output.chars)
       IN IF type = UnknownMarker \/ type = <<>> THEN Return(Null)
          ELSE Return(Text(type))

getType(flow) ==
  IF flow.k = "throw" THEN Return(Null)
  ELSE IF Falsy(flow.v) THEN Return(Null)
  ELSE GetTypeDecode(Get(flow.v, "stdout"))

\* the handler's completion for a completion of _execFlow
Handle(handler, flow, prefix) ==
  CASE handler = "findDefinition" -> findDefinition(flow)
    [] handler = "findDiagnostics" -> findDiagnostics(flow)
    [] handler = "getAutocompleteSuggestions" -> getAutocompleteSuggestions(flow, prefix)
    [] handler = "getType" -> getType(flow)

\* the value a handler yields when it has nothing to report
NoResult(handler) ==
  IF handler \in {"findDefinition", "getType"} THEN Null ELSE Arr(<<>>)

----------------------------------------------------------------------------
(* The collaborators of _execFlow *)

\* findNearestFile('.flowconfig', ...) of the file: its root, or NoRoot
ConfigRoot(file) ==
  CASE file = "r1/a.js" -> "r1"
    [] file = "r2/b.js" -> "r2"
    [] OTHER -> NoRoot

\* getFlowExecOptions(file): null without a flow binary or a .flowconfig
getFlowExecOptions(file, installed) ==
  IF installed /\ ConfigRoot(file) # NoRoot
  THEN Obj([cwd |-> Path(ConfigRoot(file))])
  ELSE Null

\* what asyncExecute resolves to
ExecResults ==
  {Obj([exitCode |-> Num(c), stdout |-> Text(out), stderr |-> Text(<<>>)]) :
     c \in {0, 1}, out \in Stdouts}

\* what asyncExecute rejects with: a failed process (exit code, output), or an
\* error of the execution itself, which carries none of them
ExecErrors ==
  {Obj([exitCode |-> Num(c), stdout |-> Text(out), stderr |-> Text(err)]) :
     c \in {1, 2}, out \in Stdouts, err \in {StderrNoServer, StderrOther}}
  \cup {Obj([stderr |-> Text(err)]) : err \in {StderrNoServer, StderrOther}}
  \cup {Obj([message |-> Text(<<"E">>)])}

\* the (code, signal) of a ChildProcess 'exit' event
SIGTERM == Text(<<"S", "I", "G", "T", "E", "R", "M">>)
SIGKILL == Text(<<"S", "I", "G", "K", "I", "L", "L">>)

ExitEvents ==
  {[code |-> Num(0), signal |-> Null],
   [code |-> Num(2), signal |-> Null],
   [code |-> Null, signal |-> SIGTERM]}

----------------------------------------------------------------------------
(* QuickSelectionComponent (pkg/nuclide/quick-open/lib): state.resultsByService
   and the promises of its queries.  Query q is the q-th call of setQuery. *)

Services == {"s1", "s2"}
Dirs == {"d1"}

\* the (directory, service) pairs a GroupedResult can hold
Requests == Dirs \X Services

\* the entry of a result that has not arrived
WaitingEntry == [items |-> <<>>, waiting |-> TRUE, error |-> Null]

\* the entry of the results of query q for a service and a directory
ResultEntry(q, serviceName, dirName) ==
  [items |-> <<[query |-> q, service |-> serviceName, dir |-> dirName]>>,
   waiting |-> FALSE, error |-> Null]

\* the entry of a rejected result promise
ErrorEntry == [items |-> <<>>, waiting |-> FALSE, error |-> Text(<<"e">>)]

\* groupedByService of setQuery's callback
GroupedByService(requests) ==
  [serviceName \in {p[2] : p \in requests} |->
     [dirName \in {p[1] : p \in {x \in requests : x[2] = serviceName}} |->
        WaitingEntry]]

\* the resultsByService that _setResult passes to setState
SetResult(resultsByService, serviceName, dirName, results) ==
  LET byDirectory == IF serviceName \in DOMAIN resultsByService
                     THEN resultsByService[serviceName]
                     ELSE <<>>
      updatedResultsByDirectory ==
        [d \in DOMAIN byDirectory \cup {dirName} |->
           IF d = dirName THEN results ELSE byDirectory[d]]
  IN [sv \in DOMAIN resultsByService \cup {serviceName} |->
        IF sv = serviceName THEN updatedResultsByDirectory
        ELSE resultsByService[sv]]

QuickInit ==
  [resultsByService |-> <<>>,
   queries |-> 0,
   newItems |-> [q \in 1..MaxQueries |-> "none"],
   results |-> [q \in 1..MaxQueries |-> [p \in Requests |-> "none"]]]

----------------------------------------------------------------------------
(* State *)

IdleReq ==
  [pc |-> "idle", handler |-> "findDefinition", file |-> "x/c.js", prefix |-> <<>>,
   i |-> 0, execs |-> 0, spawns |-> 0, noServer |-> 0,
   blacklistedAtStart |-> FALSE, blacklistedAtCheck |-> FALSE,
   flowOptions |-> Undefined, stderr |-> Null,
   observe |-> FALSE, out |-> Return(Undefined), execFlow |-> Return(Undefined),
   contents |-> Null, line |-> 0, column |-> 0, args |-> <<>>, spawned |-> {},
   stdin |-> Undefined,
   flow |-> "none", result |-> Return(Undefined)]

Init ==
  /\ startedServers = {}
  /\ failedRoots = {}
  /\ servers = <<>>
  /\ req = [r \in Reqs |-> IdleReq]
  /\ disposeCalls = 0
  /\ lastExit = [code |-> Undefined, signal |-> Undefined]
  /\ startedAfterDispose = FALSE
  /\ quick = QuickInit

Prefixes == {<<>>, <<" ">>, <<"a", "b">>}

----------------------------------------------------------------------------
(* _execFlow *)

\* a test for undefined alone
NoFlowOptionsStrict(flowOptions) == flowOptions = Undefined

\* !flowOptions
NoFlowOptions(flowOptions) == Falsy(flowOptions)

\* a check that never finds the root
FailedRootsHasNever(failed, root) == FALSE

\* this._failedRoots.has(root)
FailedRootsHas(failed, root) == root \in failed

\* a bound of one retry
TriesExhaustedEarly(i) == i >= 1

\* a loop that also gives up once a root has crashed
TriesExhaustedOrCrashed(i) == i >= maxTries \/ failedRoots # {}

\* i >= maxTries: the catch block rethrows
TriesExhausted(i) == i >= maxTries

\* a counter that starts over after every spawn
NextTryReset(i) == 0

\* i++ of the for loop
NextTry(i) == i + 1

\* a test that takes every failure with a stderr for "no server"
NoServerRunningAny(e) == Get(e, "stderr").t = "string"

\* e.stderr.match("There is no flow server running")
NoServerRunning(e) ==
  /\ Get(e, "stderr").t = "string"
  /\ Matches(Get(e, "stderr").chars, NoServerPhrase)

\* the catch block of the loop: rethrow, fail on e.stderr, or spawn and retry
ExecFlowCatch(i, e) ==
  IF TriesExhausted(i) THEN Throw(e)
  ELSE IF Get(e, "stderr").t # "string" THEN Throw(TypeError)
  ELSE IF NoServerRunning(e) THEN [k |-> "retry"]
  ELSE Throw(e)

\* a test of the signal alone
IsCrashAnyCode(code, signal) == signal = Null

\* code === 2 && signal === null
IsCrash(code, signal) == code = Num(2) /\ signal = Null

\* a blacklist that keeps the last crashed root only
AddFailedRootOnly(failed, root) == {root}

\* this._failedRoots.add(root)
AddFailedRoot(failed, root) == failed \cup {root}

\* a spawn that is not registered
AddStartedServerNever(started, server) == started

\* this._startedServers.add(serverProcess)
AddStartedServer(started, server) == started \cup {server}

\* kill() with its default signal
KillSignalDefault == SIGTERM

\* server.kill(...) of dispose
KillSignal == SIGKILL

\* the completion of the last asyncExecute of an observed request
Observe(q, out) == [q EXCEPT !.out = IF q.observe THEN out ELSE @]

\* the stderr of the last rejection of asyncExecute of an observed request
ObserveStderr(q, e) == [q EXCEPT !.stderr = IF q.observe THEN Get(e, "stderr") ELSE @]

\* the request once _execFlow has completed and the handler has decoded it
Finish(q, flow) ==
  [q EXCEPT !.pc = "done",
            !.execFlow = IF q.observe THEN flow ELSE @,
            !.flow = IF flow.k = "throw" THEN "throw"
                     ELSE IF Falsy(flow.v) THEN "null" ELSE "result",
            !.result = Handle(q.handler, flow, q.prefix)]

\* an element of an argument list that is a string
Word(s) == [t |-> "word", s |-> s]

\* the args array each handler builds
Args(handler, file, contents, line, column) ==
  CASE handler = "findDefinition" ->
         <<Word("get-def"), Word("--json"), Word("--path"), Word(file),
           Num(line), Num(column)>>
    [] handler = "findDiagnostics" ->
         IF ~Falsy(contents)
         THEN <<Word("check-contents"), Word("--json"), Word(file)>>
         ELSE <<Word("status"), Word("--json"), Word(file)>>
    [] handler = "getAutocompleteSuggestions" ->
         <<Word("autocomplete"), Word("--json"), Word(file)>>
    [] handler = "getType" ->
         <<Word("type-at-pos"), Num(line + 1), Num(column + 1)>>

\* insertAutocompleteToken(currentContents, line, column)
insertAutocompleteToken(contents, line, column) ==
  [t |-> "tokenized", contents |-> contents, line |-> line, column |-> column]

\* options.stdin as each handler sets it; undefined when it is not set
Stdin(handler, contents, line, column) ==
  CASE handler = "findDefinition" -> contents
    [] handler = "findDiagnostics" -> IF ~Falsy(contents) THEN contents ELSE Undefined
    [] handler = "getAutocompleteSuggestions" ->
         insertAutocompleteToken(contents, line, column)
    [] handler = "getType" -> contents

NoAutoStart == Word("--no-auto-start")

\* args.push("--no-auto-start")
PushNoAutoStart(args) == Append(args, NoAutoStart)

\* a push inside the loop, before every attempt
RetryArgsPushed(args) == Append(args, NoAutoStart)

\* the args of a retried attempt: the array of the first attempt
RetryArgs(args) == args

\* a server started without its root
ServerArgsNoRoot(root) == <<Word("server")>>

\* the arguments of safeSpawn
ServerArgs(root) == <<Word("server"), Word(root)>>

\* a handler is called: it builds args and options and calls _execFlow, which
\* runs up to `await getFlowExecOptions(file)`
Call(r, handler, file, contents, line, column, prefix, observe) ==
  /\ req[r].pc = "idle"
  /\ req' = [req EXCEPT ![r] =
               [IdleReq EXCEPT !.pc = "opts", !.handler = handler, !.file = file,
                               !.prefix = prefix, !.contents = contents,
                               !.line = line, !.column = column,
                               !.args = Args(handler, file, contents, line, column),
                               !.stdin = Stdin(handler, contents, line, column),
                               !.observe = observe,
                               !.blacklistedAtStart = ConfigRoot(file) \in failedRoots]]
  /\ startedAfterDispose' = (startedAfterDispose \/ disposeCalls > 0)
  /\ UNCHANGED <<startedServers, failedRoots, servers, disposeCalls, lastExit,
               quick>>

\* a call at the start of a one-character buffer
Start(r, handler, file, prefix) ==
  Call(r, handler, file, Text(<<"x">>), 0, 0, prefix, FALSE)

\* getFlowExecOptions has resolved: lines 57-66, up to `await getPathToFlow()`
OptionsResolved(r, installed) ==
  /\ req[r].pc = "opts"
  /\ LET flowOptions == getFlowExecOptions(req[r].file, installed)
         q == [req[r] EXCEPT !.flowOptions = IF req[r].observe THEN flowOptions ELSE @]
     IN req' = [req EXCEPT ![r] =
                  IF NoFlowOptions(flowOptions) THEN Finish(q, Return(Null))
                  ELSE IF ~CanGet(flowOptions) THEN Finish(q, Throw(TypeError))
                  ELSE IF FailedRootsHas(failedRoots, Get(flowOptions, "cwd").name)
                  THEN Finish([q EXCEPT !.blacklistedAtCheck = TRUE], Return(Null))
                  ELSE [q EXCEPT !.pc = "path",
                                 !.args = PushNoAutoStart(@),
                                 !.blacklistedAtCheck =
                                   ConfigRoot(req[r].file) \in failedRoots]]
  /\ UNCHANGED <<startedServers, failedRoots, servers, disposeCalls, lastExit, startedAfterDispose,
               quick>>

\* getPathToFlow has resolved: the loop starts, asyncExecute is called (i = 0)
PathResolved(r) ==
  /\ req[r].pc = "path"
  /\ req' = [req EXCEPT ![r] = [@ EXCEPT !.pc = "exec", !.i = 0, !.execs = 1]]
  /\ UNCHANGED <<startedServers, failedRoots, servers, disposeCalls, lastExit, startedAfterDispose,
               quick>>

\* asyncExecute has resolved: _execFlow returns the result
ExecResolved(r, result) ==
  /\ req[r].pc = "exec"
  /\ req' = [req EXCEPT ![r] = Finish(Observe(@, Return(result)), Return(result))]
  /\ UNCHANGED <<startedServers, failedRoots, servers, disposeCalls, lastExit, startedAfterDispose,
               quick>>

\* asyncExecute has rejected and the catch block rethrows
ExecRejectedThrow(r, e) ==
  /\ req[r].pc = "exec"
  /\ ExecFlowCatch(req[r].i, e).k = "throw"
  /\ req' = [req EXCEPT ![r] =
               Finish([ObserveStderr(Observe(@, Throw(e)), e) EXCEPT
                                !.noServer = @ + (IF NoServerRunning(e) THEN 1 ELSE 0)],
                      ExecFlowCatch(req[r].i, e))]
  /\ UNCHANGED <<startedServers, failedRoots, servers, disposeCalls, lastExit, startedAfterDispose,
               quick>>

\* asyncExecute has rejected with the no-server message: safeSpawn, the exit
\* observer, the registration (lines 80-99), i++ and the next asyncExecute
ExecRejectedRetry(r, e) ==
  /\ req[r].pc = "exec"
  /\ ExecFlowCatch(req[r].i, e).k = "retry"
  /\ IF Len(servers) < MaxWorkers
     THEN /\ servers' = Append(servers,
                               [root |-> ConfigRoot(req[r].file),
                                args |-> ServerArgs(ConfigRoot(req[r].file)),
                                alive |-> TRUE, signals |-> <<>>, onExit |-> TRUE])
          /\ startedServers' = AddStartedServer(startedServers, Len(servers) + 1)
     ELSE UNCHANGED <<servers, startedServers>>
  /\ req' = [req EXCEPT ![r] =
               [ObserveStderr(@, e) EXCEPT !.i = NextTry(@),
                         !.args = RetryArgs(@),
                         !.spawned = @ \cup {ServerArgs(ConfigRoot(req[r].file))},
                         !.execs = (@ + 1) % (MaxExecs + 1),
                         !.spawns = (@ + 1) % (MaxExecs + 1),
                         !.noServer = (@ + 1) % (MaxExecs + 1)]]
  /\ UNCHANGED <<failedRoots, disposeCalls, lastExit, startedAfterDispose,
               quick>>

\* the caller takes the handler's result
Settle(r) ==
  /\ req[r].pc = "done"
  /\ req' = [req EXCEPT ![r] = IdleReq]
  /\ UNCHANGED <<startedServers, failedRoots, servers, disposeCalls, lastExit, startedAfterDispose,
               quick>>

\* a spawned process exits: the 'exit' observer of lines 86-98
ServerExit(w, code, signal) ==
  /\ w \in 1..Len(servers)
  /\ servers[w].alive
  /\ servers' = [servers EXCEPT ![w].alive = FALSE]
  /\ lastExit' = [code |-> code, signal |-> signal]
  /\ failedRoots' = IF servers[w].onExit /\ IsCrash(code, signal)
                    THEN AddFailedRoot(failedRoots, servers[w].root)
                    ELSE failedRoots
  /\ UNCHANGED <<startedServers, req, disposeCalls, startedAfterDispose,
               quick>>

\* dispose()
Dispose ==
  /\ disposeCalls < MaxDispose
  /\ servers' = [w \in 1..Len(servers) |->
                   IF w \in startedServers
                   THEN [servers[w] EXCEPT !.signals = Append(@, KillSignal)]
                   ELSE servers[w]]
  /\ disposeCalls' = disposeCalls + 1
  /\ UNCHANGED <<startedServers, failedRoots, req, lastExit, startedAfterDispose,
               quick>>

----------------------------------------------------------------------------
(* QuickSelectionComponent: setQuery and the callbacks of its promises *)

flowVars == <<startedServers, failedRoots, servers, req, disposeCalls, lastExit,
              startedAfterDispose>>

\* setQuery(query) with a provider: executeQuery is called
setQuery(q) ==
  /\ q = quick.queries + 1
  /\ q <= MaxQueries
  /\ quick' = [quick EXCEPT !.queries = q, !.newItems[q] = "pending"]
  /\ UNCHANGED flowVars

\* the promise of executeQuery of query q resolves with a GroupedResult: the
\* callback subscribes to every result promise and sets the waiting entries
NewItemsResolved(q, requests) ==
  /\ q \in 1..MaxQueries
  /\ quick.newItems[q] = "pending"
  /\ quick' = [quick EXCEPT
                 !.newItems[q] = "resolved",
                 !.results[q] = [p \in Requests |->
                                   IF p \in requests THEN "subscribed" ELSE "none"],
                 !.resultsByService = GroupedByService(requests)]
  /\ UNCHANGED flowVars

\* a result promise of query q resolves: _setResult with its items
ResultResolved(q, p) ==
  /\ q \in 1..MaxQueries
  /\ quick.results[q][p] = "subscribed"
  /\ quick' = [quick EXCEPT
                 !.results[q][p] = "resolved",
                 !.resultsByService =
                   SetResult(@, p[2], p[1], ResultEntry(q, p[2], p[1]))]
  /\ UNCHANGED flowVars

\* a result promise of query q rejects: _setResult with the error
ResultRejected(q, p) ==
  /\ q \in 1..MaxQueries
  /\ quick.results[q][p] = "subscribed"
  /\ quick' = [quick EXCEPT
                 !.results[q][p] = "rejected",
                 !.resultsByService = SetResult(@, p[2], p[1], ErrorEntry)]
  /\ UNCHANGED flowVars

QuickNext ==
  \/ \E q \in 1..MaxQueries : setQuery(q)
  \/ \E q \in 1..MaxQueries, requests \in SUBSET Requests : NewItemsResolved(q, requests)
  \/ \E q \in 1..MaxQueries, p \in Requests : ResultResolved(q, p)
  \/ \E q \in 1..MaxQueries, p \in Requests : ResultRejected(q, p)

QuickSpec == Init /\ [][QuickNext]_vars

----------------------------------------------------------------------------
(* The environment of Spec and TeardownSpec: the invocation outcomes are the
   few _execFlow tells apart, and an invocation reports "no server" only
   while the model can track the spawned process, so that every process
   spawned under these specifications is in `servers`. *)

FlowResults ==
  {Obj([exitCode |-> Num(0), stdout |-> Text(DocDefinition), stderr |-> Text(<<>>)])}

FlowErrors ==
  {Obj([exitCode |-> Num(1), stdout |-> Text(<<>>), stderr |-> Text(StderrNoServer)]),
   Obj([exitCode |-> Num(1), stdout |-> Text(<<>>), stderr |-> Text(StderrOther)]),
   Obj([message |-> Text(<<"E">>)])}

\* the awaits of request r complete
Resume(r) ==
  \/ \E installed \in BOOLEAN : OptionsResolved(r, installed)
  \/ PathResolved(r)
  \/ \E v \in FlowResults : ExecResolved(r, v)
  \/ \E e \in FlowErrors : ExecRejectedThrow(r, e)

\* the steps of request r
Request(r) ==
  \/ \E h \in {"findDefinition", "findDiagnostics"}, f \in Files : Start(r, h, f, <<>>)
  \/ Resume(r)
  \/ \E e \in FlowErrors : Len(servers) < MaxWorkers /\ ExecRejectedRetry(r, e)
  \/ Settle(r)

Exit == \E w \in 1..MaxWorkers, ev \in ExitEvents : ServerExit(w, ev.code, ev.signal)

(* Spec: concurrent requests and worker exits. *)
Next ==
  \/ \E r \in Reqs : Request(r)
  \/ Exit

Spec == Init /\ [][Next]_vars

(* TeardownSpec: a request, worker exits and dispose(). *)
TeardownNext ==
  \/ Request(1)
  \/ Exit
  \/ Dispose

TeardownSpec == Init /\ [][TeardownNext]_vars

----------------------------------------------------------------------------
(* CallSpec: one request at a time, with every handler, every prefix and every
   outcome of the invocation, and no bound on the "no server" failures: the
   processes spawned after the first MaxWorkers are not tracked. *)

CallNext ==
  \/ \E h \in Handlers, f \in Files, p \in Prefixes :
       /\ (h # "getAutocompleteSuggestions" => p = <<>>)
       /\ Start(1, h, f, p)
  \/ \E installed \in BOOLEAN : OptionsResolved(1, installed)
  \/ PathResolved(1)
  \/ \E v \in ExecResults : ExecResolved(1, v)
  \/ \E e \in ExecErrors : ExecRejectedThrow(1, e)
  \/ \E e \in ExecErrors : ExecRejectedRetry(1, e)
  \/ Settle(1)
  \/ \E w \in 1..MaxWorkers, ev \in ExitEvents : ServerExit(w, ev.code, ev.signal)

CallSpec == Init /\ [][CallNext]_vars

(* FairSpec: a request, worker exits, no bound on the "no server" failures,
   and every await of the request completing. *)
Advance ==
  \/ Resume(1)
  \/ \E e \in FlowErrors : ExecRejectedRetry(1, e)

FairNext ==
  \/ \E h \in {"findDefinition", "findDiagnostics"}, f \in Files : Start(1, h, f, <<>>)
  \/ Advance
  \/ Settle(1)
  \/ Exit

FairSpec == Init /\ [][FairNext]_vars /\ WF_vars(Advance)

----------------------------------------------------------------------------
(* DecodeSpec: one observed request at a time, with every handler, buffer,
   position and prefix, and every outcome of the invocation: the model
   records what getFlowExecOptions, asyncExecute and _execFlow completed
   with.  No process exits, so no root is blacklisted. *)

Buffers == {Null, Text(<<>>), Text(<<"x">>)}

DecodePrefixes == Prefixes \cup {<<" ", "\t">>, <<" ", "a">>}

\* what asyncExecute resolves to: also every get-def reply of the model, more
\* autocomplete replies and a late Failure line
DecodeStdouts ==
  Stdouts \cup {DefinitionDoc(l, c) : l, c \in WorkerCoords}
          \cup {DocNoSuggestions, DocTwoSuggestions, TextLateFailure}

DecodeResults ==
  {Obj([exitCode |-> Num(c), stdout |-> Text(out), stderr |-> Text(<<>>)]) :
     c \in {0, 1}, out \in DecodeStdouts}

DecodeNext ==
  \/ /\ req[1].pc = "idle"
     /\ \/ \E h \in {"findDefinition", "getType"}, f \in Files, l, c \in 0..MaxCoord :
             Call(1, h, f, Text(<<"x">>), l, c, <<>>, TRUE)
        \/ \E f \in Files, b \in Buffers :
             Call(1, "findDiagnostics", f, b, 0, 0, <<>>, TRUE)
        \/ \E f \in Files, p \in DecodePrefixes :
             Call(1, "getAutocompleteSuggestions", f, Text(<<"x">>), 0, 0, p, TRUE)
  \/ /\ req[1].pc = "opts"
     /\ \E installed \in BOOLEAN : OptionsResolved(1, installed)
  \/ PathResolved(1)
  \/ /\ req[1].pc = "exec"
     /\ \/ \E v \in DecodeResults : ExecResolved(1, v)
        \/ \E e \in ExecErrors : ExecRejectedThrow(1, e)
        \/ \E e \in ExecErrors : ExecRejectedRetry(1, e)
  \/ Settle(1)

DecodeSpec == Init /\ [][DecodeNext]_vars

----------------------------------------------------------------------------
(* CrashSpec: one observed request at a time and worker exits, with no bound
   on the "no server" failures: roots are blacklisted while the request is
   in flight. *)

CrashNext ==
  \/ \E h \in {"findDefinition", "findDiagnostics"}, f \in Files :
       Call(1, h, f, Text(<<"x">>), 0, 0, <<>>, TRUE)
  \/ Advance
  \/ Settle(1)
  \/ Exit

CrashSpec == Init /\ [][CrashNext]_vars

----------------------------------------------------------------------------
(* Claims *)

\* the root of the file of request r
RootOf(r) == ConfigRoot(req[r].file)

\* a step in which request r retries its invocation (after safeSpawn)
Retries(r) ==
  /\ req[r].pc = "exec"
  /\ req'[r].pc = "exec"
  /\ req'[r].execs # req[r].execs

\* C1: a request on a file whose root is in _failedRoots when the handler is
\* called runs no invocation, spawns no process and, once complete, has
\* resolved to the handler's "no result" value (null, [], [], null).
C1_BlacklistedRootShortCircuits ==
  \A r \in Reqs :
    req[r].blacklistedAtStart =>
      /\ req[r].execs = 0
      /\ req[r].spawns = 0
      /\ req[r].pc = "done" => req[r].result = Return(NoResult(req[r].handler))

C1_Witness ==
  /\ req[1].pc = "done"
  /\ req[1].blacklistedAtStart
  /\ req[1].handler = "findDiagnostics"
  /\ req[1].result = Return(Arr(<<>>))

\* C2 (as claimed): in a state where root R is in _failedRoots, no request on R
\* retries its invocation and no process is spawned for R, also not by a
\* request that was inside the retry loop when R was added.
C2_NoRetryOnceBlacklisted ==
  [][\A r \in Reqs : RootOf(r) \in failedRoots => ~Retries(r)]_vars

\* C2 (amended): a request that reaches the blacklist check of _execFlow while
\* its root is in _failedRoots never enters the retry loop: it completes in
\* that step with null, having run no invocation and spawned no process.
C2_BlacklistedAtCheckNeverRuns ==
  [][\A r \in Reqs :
       (req[r].pc = "opts" /\ RootOf(r) \in failedRoots) =>
         \/ req'[r] = req[r]
         \/ /\ req'[r].pc = "done"
            /\ req'[r].flow = "null"
            /\ req'[r].execs = 0
            /\ req'[r].spawns = 0
            /\ servers' = servers]_vars

C2_Witness ==
  \E r \in Reqs :
    /\ req[r].pc = "done"
    /\ req[r].flow = "null"
    /\ req[r].blacklistedAtCheck
    /\ ~req[r].blacklistedAtStart
    /\ \E q \in Reqs : q # r /\ req[q].pc = "exec" /\ RootOf(q) = RootOf(r)

\* C3 (as claimed): a call all of whose invocations failed with the "no flow
\* server running" message has run exactly maxTries = 5 invocations and has
\* thrown.
C3_ExactlyFiveAttempts ==
  \A r \in Reqs :
    (req[r].pc = "done" /\ req[r].execs > 0 /\ req[r].noServer = req[r].execs) =>
      req[r].execs = maxTries /\ req[r].flow = "throw"

\* C4: every call of _execFlow completes, whatever the invocations answer.
C4_ExecFlowTerminates ==
  (req[1].pc \in {"opts", "path", "exec"}) ~> (req[1].pc = "done")

C4_Witness ==
  /\ req[1].pc = "done"
  /\ req[1].flow = "throw"
  /\ req[1].spawns = maxTries

\* C5: an exit with (code 2, signal null) adds the root of the exited process,
\* and nothing else, to _failedRoots; any other exit, and any step that is not
\* an exit, leaves _failedRoots as it is.
C5_OnlyCrashBlacklistsOwnRoot ==
  [][/\ \A w \in 1..Len(servers) :
          (servers[w].alive /\ ~servers'[w].alive) =>
            failedRoots' =
              IF lastExit'.code = Num(2) /\ lastExit'.signal = Null
              THEN failedRoots \cup {servers[w].root}
              ELSE failedRoots
     /\ failedRoots' # failedRoots =>
          \E w \in 1..Len(servers) : servers[w].alive /\ ~servers'[w].alive]_vars

C5_Witness ==
  /\ failedRoots = {"r1"}
  /\ lastExit = [code |-> Null, signal |-> SIGTERM]
  /\ \E w \in 1..Len(servers) : servers[w].root = "r2" /\ ~servers[w].alive
  /\ \E r \in Reqs : RootOf(r) = "r2" /\ req[r].pc = "exec"

\* C6: no step removes a root from _failedRoots.
C6_BlacklistMonotonic ==
  [][failedRoots \subseteq failedRoots']_vars

C6_Witness ==
  /\ failedRoots = Roots
  /\ disposeCalls = MaxDispose

\* C7: a dispose() sends SIGKILL to every process spawned so far, and no
\* process is ever sent another signal.
C7_DisposeKillsEveryServer ==
  [][disposeCalls' # disposeCalls =>
       \A w \in 1..Len(servers) :
         /\ servers'[w].signals = Append(servers[w].signals, SIGKILL)
         /\ \A k \in 1..Len(servers'[w].signals) : servers'[w].signals[k] = SIGKILL]_vars

C7_Witness ==
  /\ disposeCalls = 1
  /\ Len(servers) = 2
  /\ \A w \in 1..Len(servers) : servers[w].signals = <<SIGKILL>>
  /\ servers[1].alive /\ ~servers[2].alive

\* C8 (as claimed): when a dispose() completes, every registered process has
\* been sent the signal exactly once in all.
C8_KilledExactlyOnce ==
  [][disposeCalls' # disposeCalls =>
       \A w \in startedServers : Len(servers'[w].signals) = 1]_vars

\* C9 (as claimed): once dispose() has run and the requests that were in flight
\* have finished (no handler was called after the dispose), every process ever
\* spawned has been sent a signal.
C9_NoLeakedServer ==
  (/\ disposeCalls > 0
   /\ ~startedAfterDispose
   /\ \A r \in Reqs : req[r].pc \in {"idle", "done"})
  => \A w \in 1..Len(servers) : Len(servers[w].signals) > 0

\* C10 (as claimed): a handler never rejects: every completed request has
\* resolved to a value.
C10_HandlersNeverThrow ==
  \A r \in Reqs : req[r].pc = "done" => req[r].result.k = "return"

\* C11: when getFlowExecOptions resolves to null (no .flowconfig above the
\* file, or flow is not installed), _execFlow returns null, having run no
\* invocation and spawned no process, and the handler resolves to its "no
\* result" value.
C11_NoOptionsNoResult ==
  \A r \in Reqs :
    (req[r].pc \in {"path", "exec", "done"} /\ req[r].flowOptions = Null) =>
      /\ req[r].pc = "done"
      /\ req[r].execFlow = Return(Null)
      /\ req[r].execs = 0
      /\ req[r].spawns = 0
      /\ req[r].spawned = {}
      /\ req[r].result = Return(NoResult(req[r].handler))

C11_Witness ==
  /\ req[1].pc = "done"
  /\ req[1].flowOptions = Null
  /\ req[1].file = "r1/a.js"
  /\ req[1].handler = "getAutocompleteSuggestions"
  /\ req[1].result = Return(Arr(<<>>))

\* C12: when an invocation fails with a stderr that does not hold the "no flow
\* server running" message, _execFlow throws that failure in the same step:
\* no process is spawned, the registry is unchanged and no further invocation
\* is run.
C12_OtherFailurePropagates ==
  [][\A r \in Reqs :
       (/\ req[r].pc = "exec"
        /\ req'[r] # req[r]
        /\ req'[r].stderr = Text(StderrOther)) =>
         /\ req'[r].pc = "done"
         /\ req'[r].out.k = "throw"
         /\ req'[r].execFlow = req'[r].out
         /\ req'[r].execs = req[r].execs
         /\ req'[r].spawns = req[r].spawns
         /\ req'[r].spawned = req[r].spawned
         /\ servers' = servers
         /\ startedServers' = startedServers]_vars

C12_Witness ==
  /\ req[1].pc = "done"
  /\ req[1].stderr = Text(StderrOther)
  /\ req[1].execFlow.k = "throw"
  /\ req[1].execs = 2
  /\ req[1].spawns = 1

\* C13: a call whose invocation k+1 succeeds after k "no flow server running"
\* failures returns the result of that invocation and has spawned k processes,
\* each with the arguments ['server', root]; a "no flow server running"
\* failure reaches the caller only from the maxTries-th invocation on.
C13_TransientAbsenceInvisible ==
  \A r \in Reqs :
    (req[r].pc = "done" /\ req[r].execs > 0) =>
      /\ req[r].out.k = "return" =>
           /\ req[r].execFlow = req[r].out
           /\ req[r].spawns = req[r].execs - 1
           /\ req[r].execs > 1 => req[r].stderr = Text(StderrNoServer)
           /\ req[r].spawned \subseteq {<<Word("server"), Word(RootOf(r))>>}
           /\ req[r].spawns > 0 => req[r].spawned # {}
      /\ (req[r].out.k = "throw" /\ req[r].stderr = Text(StderrNoServer)) =>
           req[r].execs >= maxTries

C13_Witness ==
  /\ req[1].pc = "done"
  /\ req[1].out.k = "return"
  /\ req[1].execs = maxTries
  /\ req[1].spawns = maxTries - 1
  /\ req[1].spawned = {<<Word("server"), Word("r2")>>}

\* C14: the argument list of every invocation of a call, the first and the
\* retried ones, holds "--no-auto-start" exactly once.
C14_NoAutoStartOnce ==
  \A r \in Reqs :
    (req[r].execs > 0) =>
      Cardinality({k \in DOMAIN req[r].args :
                     req[r].args[k] = Word("--no-auto-start")}) = 1

C14_Witness ==
  /\ req[1].pc = "exec"
  /\ req[1].execs = 3
  /\ req[1].handler = "getType"
  /\ req[1].args[Len(req[1].args)] = Word("--no-auto-start")

\* an exit-0 completion of the invocation with the given stdout
Reply(doc) ==
  Obj([exitCode |-> Num(0), stdout |-> Text(doc), stderr |-> Text(<<>>)])

\* C15: findDiagnostics resolves to the errors list of the stdout of an
\* invocation that failed with a (non-zero) exit code, and to [] for a
\* failure that carries no exit code.
C15_DiagnosticsOfFailedExit ==
  \A r \in Reqs :
    (/\ req[r].pc = "done"
     /\ req[r].handler = "findDiagnostics"
     /\ req[r].out.k = "throw") =>
      /\ (/\ Get(req[r].out.v, "exitCode") \in {Num(1), Num(2)}
          /\ Get(req[r].out.v, "stdout") = Text(DocErrors)) =>
           req[r].result = Return(Arr(<<Text(<<"e">>)>>))
      /\ Get(req[r].out.v, "exitCode") = Undefined =>
           req[r].result = Return(Arr(<<>>))

C15_Witness ==
  /\ req[1].pc = "done"
  /\ req[1].handler = "findDiagnostics"
  /\ req[1].out = Throw(Obj([exitCode |-> Num(2), stdout |-> Text(DocErrors),
                             stderr |-> Text(StderrOther)]))
  /\ req[1].result = Return(Arr(<<Text(<<"e">>)>>))

\* C16: for an exit-0 get-def reply with a path and 1-based (line l, start s),
\* findDefinition resolves to {file: path, line: l - 1, column: s - 1}.
C16_DefinitionOneDecrement ==
  \A r \in Reqs :
    (/\ req[r].pc = "done"
     /\ req[r].handler = "findDefinition"
     /\ req[r].out.k = "return") =>
      \A l, s \in 1..(MaxCoord + 2) :
        req[r].out.v = Reply(DefinitionDoc(l, s)) =>
          req[r].result = Return(Obj([file |-> Text(<<"p">>),
                                      line |-> Num(l - 1),
                                      column |-> Num(s - 1)]))

\* a request at (1, 2) answered with (3, 4) resolves to (2, 3)
C16_Witness ==
  /\ req[1].pc = "done"
  /\ req[1].handler = "findDefinition"
  /\ req[1].line = 1
  /\ req[1].column = 2
  /\ req[1].out = Return(Reply(DefinitionDoc(req[1].line + 2, req[1].column + 2)))
  /\ req[1].result = Return(Obj([file |-> Text(<<"p">>),
                                 line |-> Num(req[1].line + 1),
                                 column |-> Num(req[1].column + 1)]))

\* the length of the first line of a text
FirstLineLen(text) ==
  CHOOSE n \in 0..Len(text) :
    /\ \A j \in 1..n : text[j] # "\n"
    /\ n = Len(text) \/ text[n + 1] = "\n"

\* the line that follows the first line begins with Failure
SecondLineBeginsFailure(text) ==
  LET n == FirstLineLen(text)
  IN /\ Len(text) >= n + 8
     /\ SubSeq(text, n + 2, n + 8) = <<"F", "a", "i", "l", "u", "r", "e">>

\* C17 (as claimed): getType resolves to null when the second line of the
\* output begins with Failure or the first line is "(unknown)" or empty, and
\* to the first line of the output otherwise.
C17_GetTypeDecoding ==
  \A r \in Reqs :
    (/\ req[r].pc = "done"
     /\ req[r].handler = "getType"
     /\ req[r].execs > 0
     /\ req[r].out.k = "return") =>
      LET text == Get(req[r].out.v, "stdout").chars
          first == SubSeq(text, 1, FirstLineLen(text))
      IN req[r].result =
           IF \/ SecondLineBeginsFailure(text)
              \/ first = <<"(", "u", "n", "k", "n", "o", "w", "n", ")">>
              \/ first = <<>>
           THEN Return(Null)
           ELSE Return(Text(first))

\* the prefixes of the model that are empty or all whitespace
WhitespacePrefixes == {<<>>, <<" ">>, <<" ", "\t">>}

\* the entry of a suggestion {name, type} for a prefix
Suggestion(name, type, prefix) ==
  Obj([text |-> Text(<<name>>), rightLabel |-> Text(<<type>>),
       replacementPrefix |->
         Text(IF prefix \in WhitespacePrefixes THEN <<>> ELSE prefix)])

\* C18: getAutocompleteSuggestions resolves an exit-0 reply with n suggestions
\* to n entries {text: name, rightLabel: type, replacementPrefix}, where
\* replacementPrefix is the prefix, or '' for an empty or all-whitespace
\* prefix; for every other outcome (null from _execFlow, a non-zero exit, a
\* thrown error, a reply that is not a JSON array of objects) it resolves to [].
C18_AutocompleteDecoding ==
  \A r \in Reqs :
    (req[r].pc = "done" /\ req[r].handler = "getAutocompleteSuggestions") =>
      req[r].result =
        Return(Arr(
          IF req[r].out = Return(Reply(DocSuggestions))
          THEN <<Suggestion("f", "T", req[r].prefix)>>
          ELSE IF req[r].out = Return(Reply(DocTwoSuggestions))
          THEN <<Suggestion("f", "T", req[r].prefix),
                 Suggestion("g", "U", req[r].prefix)>>
          ELSE <<>>))

C18_Witness ==
  /\ req[1].pc = "done"
  /\ req[1].handler = "getAutocompleteSuggestions"
  /\ req[1].prefix = <<" ", "\t">>
  /\ req[1].out = Return(Reply(DocTwoSuggestions))
  /\ Len(req[1].result.v.items) = 2
  /\ req[1].result.v.items[2].fields.replacementPrefix = Text(<<>>)

\* C19: in every state, every process that has been spawned is a member of
\* _startedServers and has its 'exit' observer attached: no request, exit
\* observer or dispose() runs between safeSpawn and the registration.
C19_SpawnedIsRegistered ==
  \A w \in 1..Len(servers) :
    /\ w \in startedServers
    /\ servers[w].onExit

C19_Witness ==
  /\ Len(servers) = 2
  /\ startedServers = {1, 2}
  /\ servers[1].root = servers[2].root
  /\ servers[1].alive /\ servers[2].alive
  /\ \A r \in Reqs : req[r].pc = "exec" /\ req[r].spawns = 1

\* C20 (as claimed): when a dispose() completes, _startedServers is empty.
C20_RegistryEmptyAfterDispose ==
  [][disposeCalls' # disposeCalls => startedServers' = {}]_vars

\* C21 (as claimed): _startedServers holds only processes that have not
\* exited: the exit of a process removes it from the registry.
C21_RegistryHoldsOnlyLive ==
  \A w \in startedServers : servers[w].alive

\* C22: a request that sees "no flow server running" spawns and registers a
\* process for its root whether or not a live process for that root is
\* registered already, so two concurrent requests on one healthy root end up
\* with two live registered processes for it.
C22_SpawnNotSerialized ==
  [][\A r \in Reqs :
       Retries(r) =>
         /\ Len(servers') = Len(servers) + 1
         /\ servers'[Len(servers')].args = <<Word("server"), Word(RootOf(r))>>
         /\ servers'[Len(servers')].alive
         /\ Len(servers') \in startedServers']_vars

C22_Witness ==
  /\ failedRoots = {}
  /\ req[1].pc = "exec" /\ req[1].spawns = 1
  /\ req[2].pc = "exec" /\ req[2].spawns = 1
  /\ RootOf(1) = "r1" /\ RootOf(2) = "r1"
  /\ \E v, w \in startedServers :
       /\ v # w
       /\ servers[v].alive /\ servers[w].alive
       /\ servers[v].args = <<Word("server"), Word("r1")>>
       /\ servers[w].args = <<Word("server"), Word("r1")>>

\* C24 (as claimed): between the call of a handler and the first invocation
\* of the request no other task runs: no other request takes a step, no
\* process is spawned, exits or is killed, and in particular the blacklist
\* does not change between the blacklist check and the first invocation.
C24_OnlyInvocationAwaitInterleaves ==
  [][\A r \in Reqs :
       (req[r].pc \in {"opts", "path"} /\ req'[r] = req[r]) =>
         /\ \A q \in Reqs : req'[q] = req[q]
         /\ servers' = servers
         /\ startedServers' = startedServers
         /\ failedRoots' = failedRoots]_vars

\* C23: a crash is not surfaced to a request in flight.  The step that adds a
\* root to _failedRoots changes no request, and what a request that passed
\* the blacklist check completes with is fixed by the outcomes of its
\* invocations alone, whether or not its root is in _failedRoots by then: the
\* result of the invocation that succeeded, or the failure of the last
\* invocation (a TypeError for a failure without a stderr before the bound),
\* a "no flow server running" failure being the last one exactly when
\* maxTries earlier invocations failed that way.
C23_CrashNotSurfacedInFlight ==
  [][/\ failedRoots' # failedRoots => req' = req
     /\ \A r \in Reqs :
          (req'[r].pc = "done" /\ req'[r].execs > 0) =>
            /\ req'[r].execFlow =
                 IF /\ req'[r].out.k = "throw"
                    /\ req'[r].stderr = Undefined
                    /\ req'[r].execs <= maxTries
                 THEN Throw(TypeError)
                 ELSE req'[r].out
            /\ (req'[r].out.k = "throw" /\ req'[r].stderr = Text(StderrNoServer)) =>
                 req'[r].execs = maxTries + 1
            /\ req'[r].spawns = req'[r].execs - 1]_vars

\* the root was blacklisted after the check; the request went on to spawn
\* again and returned the result of its third invocation
C23_Witness ==
  /\ req[1].pc = "done"
  /\ ~req[1].blacklistedAtCheck
  /\ RootOf(1) \in failedRoots
  /\ req[1].execs = 3
  /\ req[1].out.k = "return"
  /\ req[1].execFlow = req[1].out
  /\ \E w \in 1..Len(servers) : servers[w].root = RootOf(1) /\ ~servers[w].alive

\* C25 (as claimed): findDiagnostics issues 'check-contents --json <file>'
\* with the buffer as stdin whenever a buffer is supplied, the empty buffer
\* included, and 'status --json <file>' without stdin only when none is.
C25_CommandByBufferPresence ==
  \A r \in Reqs :
    (req[r].pc # "idle" /\ req[r].handler = "findDiagnostics") =>
      IF req[r].contents # Null
      THEN /\ SubSeq(req[r].args, 1, 3) =
                <<Word("check-contents"), Word("--json"), Word(req[r].file)>>
           /\ req[r].stdin = req[r].contents
      ELSE /\ SubSeq(req[r].args, 1, 3) =
                <<Word("status"), Word("--json"), Word(req[r].file)>>
           /\ req[r].stdin = Undefined

\* C26 (as claimed): findDiagnostics always resolves to a list: the errors
\* list when the stdout it decodes is an object with an errors list, and []
\* otherwise, also for valid JSON without an errors list.
C26_DiagnosticsAlwaysList ==
  \A r \in Reqs :
    (req[r].pc = "done" /\ req[r].handler = "findDiagnostics") =>
      req[r].result =
        IF /\ req[r].execs > 0
           /\ Get(req[r].out.v, "stdout") = Text(DocErrors)
           /\ req[r].out.k = "return" \/ Get(req[r].out.v, "exitCode") # Undefined
        THEN Return(Arr(<<Text(<<"e">>)>>))
        ELSE Return(Arr(<<>>))

\* C27: findDefinition resolves to a location only for an exit-0 reply whose
\* JSON carries a path, and to null in every other case: null from _execFlow,
\* a non-zero exit, a thrown failure (retries exhausted included), malformed
\* JSON, JSON without a path.
C27_DefinitionOrNull ==
  \A r \in Reqs :
    (req[r].pc = "done" /\ req[r].handler = "findDefinition") =>
      /\ req[r].result.k = "return"
      /\ IF /\ req[r].execs > 0
            /\ \E l, s \in 1..(MaxCoord + 2) :
                 req[r].out = Return(Reply(DefinitionDoc(l, s)))
         THEN Get(req[r].result.v, "file") = Text(<<"p">>)
         ELSE req[r].result.v = Null

\* "no flow server running" on every invocation: the failure of the last one
\* is thrown and findDefinition resolves to null
C27_Witness ==
  /\ req[1].pc = "done"
  /\ req[1].handler = "findDefinition"
  /\ req[1].execs = maxTries + 1
  /\ req[1].execFlow.k = "throw"
  /\ req[1].stderr = Text(StderrNoServer)
  /\ req[1].result = Return(Null)

\* C28 (as claimed): once a later setQuery has been called, no promise of an
\* earlier query, neither its executeQuery promise nor one of its result
\* promises, changes resultsByService when it settles.
C28_OnlyLatestQueryShown ==
  [][\A q \in 1..MaxQueries :
       (/\ q < quick.queries
        /\ \/ quick'.newItems[q] # quick.newItems[q]
           \/ quick'.results[q] # quick.results[q]) =>
         quick'.resultsByService = quick.resultsByService]_vars

====
